---- MODULE Spec2Model ----
(***************************************************************************)
(* Model of inferno/extensions/models/unet.py: construction of a UNetBase  *)
(* (the channel topology, the operator lists and the side-output           *)
(* bookkeeping) and its forward pass over a tensor, of which the model     *)
(* keeps the shape and the stage that produced it.                         *)
(***************************************************************************)
EXTENDS Integers, Sequences, FiniteSets, TLC

\* ---------------------------------------------------------------- bounds
MaxDepth == 2
MaxGain == 2
MaxFeatures == 2

\* constructor arguments that are tried
DimChoices == 0..4
DepthChoices == 0..MaxDepth
GainChoices == 1..MaxGain
FeatureChoices == 1..MaxFeatures
InChannelChoices == {3}
\* out_channels: << >> is None, <<n>> is the integer n
OutChannelChoices == {<< >>, <<5>>}
\* the class that is constructed: the default UNet, or some other class
\* deriving from UNetBase with a conv_op_factory of its own
ClassChoices == {"UNet", "derived"}

\* sizes of the axes of the tensors that are fed to forward
Extents == {2, 3, 2 ^ MaxDepth}
RankChoices == 0..5

\* ---------------------------------------------------------------- values
None == << >>

NoExc == [type |-> "none", at |-> "none"]

Exc(type, at) == [type |-> type, at |-> at]

\* a tensor: its shape, and the stage whose output it is
Tensor(shape, src) == [shape |-> shape, src |-> src]

\* all sequences over S of length n
RECURSIVE SeqsOfLen(_, _)
SeqsOfLen(S, n) ==
    IF n = 0 THEN {<< >>}
    ELSE {Append(s, x) : s \in SeqsOfLen(S, n - 1), x \in S}

NonDecreasing(s) == \A i \in 1..(Len(s) - 1) : s[i] <= s[i + 1]

\* shapes [1, channels, *spatial] and their prefixes, and the shape of a 0-dim
\* tensor; forward treats the spatial axes alike, so of the shapes that differ
\* in the order of the spatial extents only the non-decreasing one is fed
Shapes ==
    {<< >>} \cup
    UNION {{<<1>> \o s : s \in {t \in SeqsOfLen(Extents, n - 1) : NonDecreasing(SubSeq(t, 2, Len(t)))}}
              : n \in RankChoices \ {0}}

Inputs ==
    {[is_tuple |-> TRUE, shape |-> << >>]}
        \cup {[is_tuple |-> FALSE, shape |-> s] : s \in Shapes}

Args ==
    [dim : DimChoices, in_channels : InChannelChoices,
     initial_features : FeatureChoices, out_channels : OutChannelChoices,
     depth : DepthChoices, gain : GainChoices, cls : ClassChoices]

RECURSIVE Reverse(_)
Reverse(s) == IF s = << >> THEN << >> ELSE Append(Reverse(Tail(s)), Head(s))

\* ---------------------------------------------------------------- OrderedDict
\* an OrderedDict is a sequence of <<key, value>> in insertion order
DictKeys(dict) == {dict[i][1] : i \in DOMAIN dict}

DictHas(dict, key) == \E i \in DOMAIN dict : dict[i][1] = key

DictSet(dict, key, value) ==
    IF DictHas(dict, key)
    THEN [i \in DOMAIN dict |-> IF dict[i][1] = key THEN <<key, value>> ELSE dict[i]]
    ELSE Append(dict, <<key, value>>)

DictValues(dict) == [i \in DOMAIN dict |-> dict[i][2]]

\* the key under which a stage is remembered: 'start', ('down', 0), ...
StageKey(part, depth_index) == <<part>> \o depth_index

\* ---------------------------------------------------------------- state
VARIABLES
    args,       \* the arguments of the constructor call
    pc,         \* where the constructor / the forward call is
    exc,        \* the exception that ended the last call, or NoExc
    self,       \* the fields of the model object
    flags,      \* what conv_op_factory returned as return_op_res, per stage
    input,      \* forward: the argument
    out,        \* forward: the current tensor
    side_out,   \* forward: the collected outputs
    down_res,   \* forward: the results of the downward conv blocks
    d,          \* forward: the loop counter
    result,     \* forward: the returned value
    calls       \* forward: the operators invoked by the call, in order

vars == <<args, pc, exc, self, flags, input, out, side_out, down_res, d, result, calls>>

fwd_locals == <<input, out, side_out, down_res, d, result, calls>>

NoTensor == Tensor(<< >>, <<"none">>)

NoResult == [is_tuple |-> FALSE, tensors |-> << >>]

BlankSelf ==
    [in_channels |-> 0, initial_features |-> 0, dim |-> 0, out_channels |-> 0,
     depth |-> 0, gain |-> 0,
     _side_out_num_channels |-> << >>,
     _start_block |-> None, _conv_down_ops |-> None, _downsample_ops |-> None,
     _conv_bottom_op |-> None, _upsample_ops |-> None, _conv_up_ops |-> None,
     _end_block |-> None,
     _store_conv_down |-> None,
     _upsample_kwargs |-> None,
     default_conv |-> None,
     out_channels_side_out |-> None]

Init ==
    /\ args \in Args
    /\ pc = "new"
    /\ exc = NoExc
    /\ self = BlankSelf
    /\ flags = << >>
    /\ input = [is_tuple |-> FALSE, shape |-> << >>]
    /\ out = NoTensor
    /\ side_out = << >>
    /\ down_res = << >>
    /\ d = 0
    /\ result = NoResult
    /\ calls = << >>

\* ---------------------------------------------------------------- topology
get_num_features_flat_bottom(s, part, depth_index) ==
    IF part \in {"down", "up"}
    THEN s.initial_features * s.gain ^ (depth_index + 1)
    ELSE IF part = "bottom"
    THEN s.initial_features * s.gain ^ s.depth
    ELSE -1

get_num_features(s, part, depth_index) ==
    IF part \in {"down", "up"}
    THEN s.initial_features * s.gain ^ (depth_index + 1)
    ELSE IF part = "bottom"
    THEN s.initial_features * s.gain ^ (s.depth + 1)
    ELSE -1   \* raise RuntimeError: wrong part

_inv_index(s, index) == s.depth - 1 - index

\* the operator a conv_op_factory call returns for these arguments
ConvOp(in_channels, out_channels, part, depth_index) ==
    [kind |-> "conv", part |-> part, depth_index |-> depth_index,
     in_channels |-> in_channels, out_channels |-> out_channels]

\* ConvELU(dim, in_channels, out_channels, kernel_size): a convolution
\* followed by an ELU
ConvELU(dim, in_channels, out_channels, kernel_size) ==
    [kind |-> "ConvELU", dim |-> dim, in_channels |-> in_channels,
     out_channels |-> out_channels, kernel_size |-> kernel_size,
     activation |-> <<"ELU">>]

\* nn.Sequential of the layers, as a conv block
Block(layers, part, depth_index) ==
    [kind |-> "conv", part |-> part, depth_index |-> depth_index,
     in_channels |-> layers[1].in_channels,
     out_channels |-> layers[Len(layers)].out_channels,
     layers |-> layers]

\* the operator UNet.conv_op_factory builds; it returns it with False
UNet_conv_op_factory(s, in_channels, out_channels, part, depth_index) ==
    IF part = "start" \/ (part = "down" /\ depth_index = <<0>>)
    THEN Block(<<ConvELU(s.dim, in_channels, out_channels, 3)>>, part, depth_index)
    ELSE IF part = "end"
    THEN Block(<<ConvELU(s.dim, in_channels, s.out_channels, 1)>>, part, depth_index)
    ELSE Block(<<ConvELU(s.dim, in_channels, out_channels, 3),
                 ConvELU(s.dim, out_channels, out_channels, 3)>>, part, depth_index)

\* self.conv_op_factory(...)[0]: UNet's, or that of another deriving class
conv_op_factory(s, in_channels, out_channels, part, depth_index) ==
    IF s.default_conv # None
    THEN UNet_conv_op_factory(s, in_channels, out_channels, part, depth_index)
    ELSE ConvOp(in_channels, out_channels, part, depth_index)

\* self.conv_op_factory(...)[1]: UNet returns False, another class either
ReturnOpRes(s) == IF s.default_conv # None THEN {FALSE} ELSE BOOLEAN

\* UNet.__init__ before it calls UNetBase.__init__
UNet_init(s, a) ==
    IF a.cls = "UNet"
    THEN [s EXCEPT !.dim = a.dim, !.default_conv = <<"ConvELU">>]
    ELSE s

_make_upsample_kwargs(dim, upsample_mode) ==
    LET mode == IF upsample_mode = None
                THEN IF dim = 1 THEN <<"linear">>
                     ELSE IF dim = 2 THEN <<"bilinear">>
                     ELSE IF dim = 3 THEN <<"trilinear">>
                     ELSE None
                ELSE upsample_mode
    IN  [scale_factor |-> 2, mode |-> mode,
         align_corners |-> IF mode \in {<<"linear">>, <<"bilinear">>, <<"trilinear">>}
                           THEN <<FALSE>> ELSE None]

downsample_op_factory(s, index) ==
    [kind |-> "MaxPool", dim |-> s.dim, kernel_size |-> 2, stride |-> 2]

upsample_op_factory(s, index) ==
    [kind |-> "Upsample", kwargs |-> s._upsample_kwargs]

\* ---------------------------------------------------------------- __init__
DimSupported_only23(dim) == dim \in {2, 3}

\* the early sanity check: dim in [1, 2, 3]
DimSupported(dim) == dim \in {1, 2, 3}

\* UNetBase.__init__ up to the upsample kwargs: the sanity check and the
\* settings. get_num_channels is no attribute of the class, so looking it up
\* for out_channels=None raises AttributeError.
UNetBase_init ==
    /\ pc = "new"
    /\ UNCHANGED <<args, flags, fwd_locals>>
    /\ IF ~DimSupported(args.dim)
       THEN /\ pc' = "failed"
            /\ exc' = Exc("RuntimeError", "__init__")
            /\ self' = UNet_init(self, args)
       ELSE LET s1 == [UNet_init(self, args) EXCEPT !.in_channels = args.in_channels,
                                   !.initial_features = args.initial_features,
                                   !.dim = args.dim]
            IN  IF args.out_channels = None
                THEN /\ pc' = "failed"
                     /\ exc' = Exc("AttributeError", "get_num_channels")
                     /\ self' = s1
                ELSE /\ pc' = "_init_start"
                     /\ exc' = NoExc
                     /\ self' = [s1 EXCEPT !.out_channels = args.out_channels[1],
                                           !.depth = args.depth,
                                           !.gain = args.gain,
                                           !._side_out_num_channels = << >>,
                                           !._upsample_kwargs =
                                               _make_upsample_kwargs(args.dim, None)]

_init_start ==
    /\ pc = "_init_start"
    /\ \E return_op_res \in ReturnOpRes(self) :
        LET conv == conv_op_factory(self, self.in_channels, self.initial_features, "start", None)
        IN  /\ self' = [self EXCEPT
                   !._side_out_num_channels =
                       IF return_op_res
                       THEN DictSet(@, StageKey("start", None), self.initial_features)
                       ELSE @,
                   !._start_block = <<conv>>]
            /\ flags' = Append(flags, <<StageKey("start", None), return_op_res>>)
    /\ pc' = "_init_downstream"
    /\ UNCHANGED <<args, exc, fwd_locals>>

\* the loop without "current_in_channels = out_channels"
RECURSIVE DownstreamLoop_stale(_, _, _, _, _, _)
DownstreamLoop_stale(s, ret, depth_index, current_in_channels, conv_down_ops, dict) ==
    IF depth_index >= s.depth
    THEN [ops |-> conv_down_ops, dict |-> dict]
    ELSE LET out_channels == get_num_features(s, "down", depth_index)
             op == conv_op_factory(s, current_in_channels, out_channels, "down", <<depth_index>>)
         IN  DownstreamLoop_stale(s, ret, depth_index + 1, current_in_channels,
                                  Append(conv_down_ops, op),
                                  IF ret[depth_index]
                                  THEN DictSet(dict, StageKey("down", <<depth_index>>), out_channels)
                                  ELSE dict)

\* the loop of _init_downstream from depth_index on
RECURSIVE DownstreamLoop(_, _, _, _, _, _)
DownstreamLoop(s, ret, depth_index, current_in_channels, conv_down_ops, dict) ==
    IF depth_index >= s.depth
    THEN [ops |-> conv_down_ops, dict |-> dict]
    ELSE LET out_channels == get_num_features(s, "down", depth_index)
             op == conv_op_factory(s, current_in_channels, out_channels, "down", <<depth_index>>)
         IN  DownstreamLoop(s, ret, depth_index + 1, out_channels,
                            Append(conv_down_ops, op),
                            IF ret[depth_index]
                            THEN DictSet(dict, StageKey("down", <<depth_index>>), out_channels)
                            ELSE dict)

_init_downstream ==
    /\ pc = "_init_downstream"
    /\ \E ret \in [0..(self.depth - 1) -> ReturnOpRes(self)] :
        LET r == DownstreamLoop(self, ret, 0, self.initial_features, << >>,
                                self._side_out_num_channels)
        IN  /\ self' = [self EXCEPT !._store_conv_down = << >>,
                                    !._conv_down_ops = r.ops,
                                    !._side_out_num_channels = r.dict]
            /\ flags' = flags \o [k \in 1..self.depth |->
                                    <<StageKey("down", <<k - 1>>), ret[k - 1]>>]
    /\ pc' = "_init_bottom"
    /\ UNCHANGED <<args, exc, fwd_locals>>

_init_bottom ==
    /\ pc = "_init_bottom"
    /\ \E return_op_res \in ReturnOpRes(self) :
        LET in_channels == get_num_features(self, "down", self.depth - 1)
            out_channels == get_num_features(self, "bottom", None)
            op == conv_op_factory(self, in_channels, out_channels, "bottom", None)
        IN  /\ self' = [self EXCEPT
                   !._conv_bottom_op = <<op>>,
                   !._side_out_num_channels =
                       IF return_op_res
                       THEN DictSet(@, StageKey("bottom", None), out_channels)
                       ELSE @]
            /\ flags' = Append(flags, <<StageKey("bottom", None), return_op_res>>)
    /\ pc' = "_init_upstream"
    /\ UNCHANGED <<args, exc, fwd_locals>>

\* the loop remembering the side output under ('up', i)
RECURSIVE UpstreamLoop_key_i(_, _, _, _, _, _)
UpstreamLoop_key_i(s, ret, i, in_channels_from_below, conv_up_ops, dict) ==
    IF i >= s.depth
    THEN [ops |-> conv_up_ops, dict |-> dict]
    ELSE LET depth_index == _inv_index(s, i)
             in_channels_from_left == get_num_features(s, "down", depth_index)
             in_channels == in_channels_from_below + in_channels_from_left
             out_channels == get_num_features(s, "up", depth_index)
             op == conv_op_factory(s, in_channels, out_channels, "up", <<depth_index>>)
         IN  UpstreamLoop_key_i(s, ret, i + 1, out_channels,
                                Append(conv_up_ops, op),
                                IF ret[i]
                                THEN DictSet(dict, StageKey("up", <<i>>), out_channels)
                                ELSE dict)

\* the loop of _init_upstream from i on
RECURSIVE UpstreamLoop(_, _, _, _, _, _)
UpstreamLoop(s, ret, i, in_channels_from_below, conv_up_ops, dict) ==
    IF i >= s.depth
    THEN [ops |-> conv_up_ops, dict |-> dict]
    ELSE LET depth_index == _inv_index(s, i)
             in_channels_from_left == get_num_features(s, "down", depth_index)
             in_channels == in_channels_from_below + in_channels_from_left
             out_channels == get_num_features(s, "up", depth_index)
             op == conv_op_factory(s, in_channels, out_channels, "up", <<depth_index>>)
         IN  UpstreamLoop(s, ret, i + 1, out_channels,
                          Append(conv_up_ops, op),
                          IF ret[i]
                          THEN DictSet(dict, StageKey("up", <<depth_index>>), out_channels)
                          ELSE dict)

_init_upstream ==
    /\ pc = "_init_upstream"
    /\ \E ret \in [0..(self.depth - 1) -> ReturnOpRes(self)] :
        LET r == UpstreamLoop(self, ret, 0, get_num_features(self, "bottom", None),
                              << >>, self._side_out_num_channels)
        IN  /\ self' = [self EXCEPT !._conv_up_ops = r.ops,
                                    !._side_out_num_channels = r.dict]
            /\ flags' = flags \o [k \in 1..self.depth |->
                                    <<StageKey("up", <<_inv_index(self, k - 1)>>), ret[k - 1]>>]
    /\ pc' = "_init_end"
    /\ UNCHANGED <<args, exc, fwd_locals>>

_init_end ==
    /\ pc = "_init_end"
    /\ \E return_op_res \in ReturnOpRes(self) :
        LET conv == conv_op_factory(self, get_num_features(self, "up", 0), self.out_channels,
                                   "end", None)
        IN  \* the result of this op is ALWAYS returned, return_op_res is ignored
            /\ self' = [self EXCEPT
                   !._side_out_num_channels =
                       DictSet(@, StageKey("end", None), self.out_channels),
                   !._end_block = <<conv>>]
            /\ flags' = Append(flags, <<StageKey("end", None), return_op_res>>)
    /\ pc' = "_init_downsample"
    /\ UNCHANGED <<args, exc, fwd_locals>>

_init_downsample ==
    /\ pc = "_init_downsample"
    /\ self' = [self EXCEPT !._downsample_ops =
                   [k \in 1..self.depth |-> downsample_op_factory(self, k - 1)]]
    /\ pc' = "_init_upsample"
    /\ UNCHANGED <<args, exc, flags, fwd_locals>>

\* _init_upsample, and the last lines of __init__ (the side out tuple)
_init_upsample ==
    /\ pc = "_init_upsample"
    /\ self' = [self EXCEPT
           !._upsample_ops =
               [k \in 1..self.depth |-> upsample_op_factory(self, _inv_index(self, k - 1))],
           !.out_channels_side_out = DictValues(self._side_out_num_channels)]
    /\ pc' = "idle"
    /\ UNCHANGED <<args, exc, flags, fwd_locals>>

\* ---------------------------------------------------------------- operators
\* What the operators the factories return do to the shape of a tensor.

Size1(t) == t.shape[2]   \* t.size()[1], the channel axis

Spatial(t) == SubSeq(t.shape, 3, Len(t.shape))

Call(op, fed) == [op |-> op, fed |-> fed]

\* a convolution accepts the number of channels it was constructed with
ConvFits(op, t) == Len(t.shape) >= 2 /\ Size1(t) = op.in_channels

\* a conv block maps in_channels to out_channels at the same spatial size
ApplyConv(op, t) ==
    Tensor([t.shape EXCEPT ![2] = op.out_channels], StageKey(op.part, op.depth_index))

PoolFits(op, t) == \A i \in 3..Len(t.shape) : t.shape[i] >= op.kernel_size

\* MaxPool(kernel_size=2, stride=2): floor((n - kernel_size) / stride) + 1
ApplyDownsample(op, t) ==
    Tensor([i \in DOMAIN t.shape |->
               IF i <= 2 THEN t.shape[i]
               ELSE ((t.shape[i] - op.kernel_size) \div op.stride) + 1],
           <<"downsample">>)

\* Upsample(scale_factor=2)
ApplyUpsample(op, t) ==
    Tensor([i \in DOMAIN t.shape |->
               IF i <= 2 THEN t.shape[i] ELSE t.shape[i] * op.kwargs.scale_factor],
           <<"upsample">>)

\* torch.cat([a, b], 1) needs equal sizes on every axis but axis 1
CatFits(a, b) ==
    /\ Len(a.shape) = Len(b.shape)
    /\ Len(a.shape) >= 2
    /\ \A i \in DOMAIN a.shape : i # 2 => a.shape[i] = b.shape[i]

Cat(a, b) == Tensor([a.shape EXCEPT ![2] = a.shape[2] + b.shape[2]], <<"cat">>)

CatOp == [kind |-> "cat", axis |-> 1]

\* ---------------------------------------------------------------- input check
\* how often size can be halved: the exponent of its largest power-of-two factor
RECURSIVE max_allowed_ds_steps_impl(_)
max_allowed_ds_steps_impl(size) ==
    IF size >= 2 /\ size % 2 = 0
    THEN 1 + max_allowed_ds_steps_impl(size \div 2)
    ELSE 0

max_allowed_ds_steps(shape) ==
    LET steps == {max_allowed_ds_steps_impl(shape[i]) : i \in DOMAIN shape}
    IN  CHOOSE m \in steps : \A n \in steps : m <= n

TooFewSteps_le(mx, depth) == mx <= depth

\* the comparison of _check_scaling: mx < self.depth
TooFewSteps(mx, depth) == mx < depth

_check_scaling(s, inp) ==
    LET shape == inp.shape
        last == IF 2 + s.dim <= Len(shape) THEN 2 + s.dim ELSE Len(shape)
        mx == max_allowed_ds_steps(SubSeq(shape, 3, last))
    IN  IF TooFewSteps(mx, s.depth)
        THEN Exc("RuntimeError", "_check_scaling")
        ELSE NoExc

_forward_sanity_check(s, inp) ==
    IF inp.is_tuple
    THEN Exc("RuntimeError", "_forward_sanity_check")
    ELSE IF Len(inp.shape) < 2
    THEN Exc("IndexError", "_forward_sanity_check")   \* shape[1]
    ELSE IF inp.shape[2] # s.in_channels
    THEN Exc("RuntimeError", "_forward_sanity_check")
    ELSE IF Len(inp.shape) # s.dim + 2
    THEN Exc("RuntimeError", "_forward_sanity_check")
    ELSE _check_scaling(s, inp)

\* ---------------------------------------------------------------- forward
\* The locals of a forward call, and the exception it has raised so far.
Frame ==
    [out |-> out, side_out |-> side_out, down_res |-> down_res,
     calls |-> calls, exc |-> NoExc]

Commit(f, next_pc) ==
    /\ out' = f.out
    /\ side_out' = f.side_out
    /\ down_res' = f.down_res
    /\ calls' = f.calls
    /\ exc' = f.exc
    /\ pc' = IF f.exc = NoExc THEN next_pc ELSE "raised"

Collect_unconditional(s, key, so, t) == Append(so, t)

\* "if key in self._side_out_num_channels: side_out.append(out)"
Collect(s, key, so, t) ==
    IF DictHas(s._side_out_num_channels, key) THEN Append(so, t) ELSE so

\* out = self._start_block(out), and its side output
StartStep(s, inp) ==
    LET op == s._start_block[1]
        t == Tensor(inp.shape, <<"input">>)
        f == [out |-> t, side_out |-> << >>, down_res |-> << >>,
              calls |-> <<Call(op, <<t>>)>>, exc |-> NoExc]
    IN  IF ~ConvFits(op, t)
        THEN [f EXCEPT !.exc = Exc("RuntimeError", "_start_block")]
        ELSE LET o1 == ApplyConv(op, t)
             IN  [f EXCEPT !.out = o1,
                           !.side_out = Collect(s, StageKey("start", None), @, o1)]

\* one round of the downward loop
DownStep(s, f, dd) ==
    LET op == s._conv_down_ops[dd + 1]
        c1 == Append(f.calls, Call(op, <<f.out>>))
    IN  IF ~ConvFits(op, f.out)
        THEN [f EXCEPT !.calls = c1, !.exc = Exc("RuntimeError", "_conv_down_ops")]
        ELSE LET o1 == ApplyConv(op, f.out)
                 pool == s._downsample_ops[dd + 1]
             IN  IF Size1(o1) # get_num_features(s, "down", dd)
                 THEN [f EXCEPT !.calls = c1, !.out = o1,
                                !.exc = Exc("AssertionError", "down")]
                 ELSE IF ~PoolFits(pool, o1)
                 THEN [f EXCEPT !.calls = Append(c1, Call(pool, <<o1>>)), !.out = o1,
                                !.exc = Exc("RuntimeError", "_downsample_ops")]
                 ELSE [f EXCEPT !.calls = Append(c1, Call(pool, <<o1>>)),
                                !.down_res = Append(@, o1),
                                !.side_out = Collect(s, StageKey("down", <<dd>>), @, o1),
                                !.out = ApplyDownsample(pool, o1)]

\* the bottom part, and the reversal of down_res
BottomStep(s, f) ==
    LET op == s._conv_bottom_op[1]
        c1 == Append(f.calls, Call(op, <<f.out>>))
    IN  IF Size1(f.out) # get_num_features(s, "down", s.depth - 1)
        THEN [f EXCEPT !.exc = Exc("AssertionError", "before bottom")]
        ELSE IF ~ConvFits(op, f.out)
        THEN [f EXCEPT !.calls = c1, !.exc = Exc("RuntimeError", "_conv_bottom_op")]
        ELSE LET o1 == ApplyConv(op, f.out)
                 so == Collect(s, StageKey("bottom", None), f.side_out, o1)
             IN  IF Size1(o1) # get_num_features(s, "bottom", None)
                 THEN [f EXCEPT !.calls = c1, !.out = o1, !.side_out = so,
                                !.exc = Exc("AssertionError", "bottom")]
                 ELSE [f EXCEPT !.calls = c1, !.out = o1, !.side_out = so,
                                !.down_res = Reverse(@)]

SkipIndex_same(s, dd) == _inv_index(s, dd) + 1

\* the position in the reversed down_res that round dd of the upward loop reads
SkipIndex(s, dd) == dd + 1

\* one round of the upward loop
UpStep(s, f, dd) ==
    LET up == s._upsample_ops[dd + 1]
        c1 == Append(f.calls, Call(up, <<f.out>>))
        o1 == ApplyUpsample(up, f.out)
        a == f.down_res[SkipIndex(s, dd)]
        c2 == Append(c1, Call(CatOp, <<a, o1>>))
        o2 == Cat(a, o1)
        op == s._conv_up_ops[dd + 1]
        c3 == Append(c2, Call(op, <<o2>>))
        o3 == ApplyConv(op, o2)
    IN  IF Size1(a) # get_num_features(s, "down", _inv_index(s, dd))
        THEN [f EXCEPT !.calls = c1, !.out = o1, !.exc = Exc("AssertionError", "skip")]
        ELSE IF ~CatFits(a, o1)
        THEN [f EXCEPT !.calls = c2, !.out = o1, !.exc = Exc("RuntimeError", "cat")]
        ELSE IF ~ConvFits(op, o2)
        THEN [f EXCEPT !.calls = c3, !.out = o2, !.exc = Exc("RuntimeError", "_conv_up_ops")]
        ELSE IF Size1(o3) # get_num_features(s, "up", _inv_index(s, dd))
        THEN [f EXCEPT !.calls = c3, !.out = o3, !.exc = Exc("AssertionError", "up")]
        ELSE [f EXCEPT !.calls = c3, !.out = o3,
                       !.side_out = Collect(s, StageKey("up", <<_inv_index(s, dd)>>), @, o3)]

\* the end block, whose result is always collected
EndStep(s, f) ==
    LET op == s._end_block[1]
        c1 == Append(f.calls, Call(op, <<f.out>>))
    IN  IF Size1(f.out) # get_num_features(s, "up", 0)
        THEN [f EXCEPT !.exc = Exc("AssertionError", "before end")]
        ELSE IF ~ConvFits(op, f.out)
        THEN [f EXCEPT !.calls = c1, !.exc = Exc("RuntimeError", "_end_block")]
        ELSE LET o1 == ApplyConv(op, f.out)
             IN  [f EXCEPT !.calls = c1, !.out = o1, !.side_out = Append(@, o1)]

ReturnValue_tuple(so) == [is_tuple |-> TRUE, tensors |-> so]

\* a single tensor if only the last layer is an output, otherwise a tuple
ReturnValue(so) ==
    IF Len(so) = 1
    THEN [is_tuple |-> FALSE, tensors |-> <<so[1]>>]
    ELSE [is_tuple |-> TRUE, tensors |-> so]

CanCall == pc = "idle"

forward_runs_start_first ==
    /\ CanCall
    /\ \E inp \in Inputs :
        LET e == _forward_sanity_check(self, inp)
            t == Tensor(inp.shape, <<"input">>)
        IN  /\ input' = inp
            /\ exc' = e
            /\ pc' = IF e = NoExc THEN "fwd_start" ELSE "raised"
            /\ calls' = <<Call(self._start_block[1], <<t>>)>>
    /\ out' = NoTensor
    /\ side_out' = << >>
    /\ down_res' = << >>
    /\ d' = 0
    /\ result' = NoResult
    /\ UNCHANGED <<args, self, flags>>

\* a call of forward: the check of the input
forward ==
    /\ CanCall
    /\ \E inp \in Inputs :
        LET e == _forward_sanity_check(self, inp)
        IN  /\ input' = inp
            /\ exc' = e
            /\ pc' = IF e = NoExc THEN "fwd_start" ELSE "raised"
    /\ out' = NoTensor
    /\ side_out' = << >>
    /\ down_res' = << >>
    /\ d' = 0
    /\ result' = NoResult
    /\ calls' = << >>
    /\ UNCHANGED <<args, self, flags>>

forward_start ==
    /\ pc = "fwd_start"
    /\ Commit(StartStep(self, input), IF self.depth > 0 THEN "fwd_down" ELSE "fwd_bottom")
    /\ d' = 0
    /\ UNCHANGED <<args, self, flags, input, result>>

forward_down ==
    /\ pc = "fwd_down"
    /\ d < self.depth
    /\ Commit(DownStep(self, Frame, d), IF d + 1 < self.depth THEN "fwd_down" ELSE "fwd_bottom")
    /\ d' = d + 1
    /\ UNCHANGED <<args, self, flags, input, result>>

forward_bottom ==
    /\ pc = "fwd_bottom"
    /\ Commit(BottomStep(self, Frame), IF self.depth > 0 THEN "fwd_up" ELSE "fwd_end")
    /\ d' = 0
    /\ UNCHANGED <<args, self, flags, input, result>>

forward_up ==
    /\ pc = "fwd_up"
    /\ d < self.depth
    /\ Commit(UpStep(self, Frame, d), IF d + 1 < self.depth THEN "fwd_up" ELSE "fwd_end")
    /\ d' = d + 1
    /\ UNCHANGED <<args, self, flags, input, result>>

forward_end ==
    /\ pc = "fwd_end"
    /\ LET f == EndStep(self, Frame)
       IN  /\ Commit(f, "returned")
           /\ result' = IF f.exc = NoExc THEN ReturnValue(f.side_out) ELSE NoResult
    /\ UNCHANGED <<args, self, flags, input, d>>

\* the call is over: the caller has the result or the exception, and the
\* locals of the call are gone
forward_exit ==
    /\ pc \in {"returned", "raised"}
    /\ pc' = "idle"
    /\ exc' = NoExc
    /\ input' = [is_tuple |-> FALSE, shape |-> << >>]
    /\ out' = NoTensor
    /\ side_out' = << >>
    /\ down_res' = << >>
    /\ d' = 0
    /\ result' = NoResult
    /\ calls' = << >>
    /\ UNCHANGED <<args, self, flags>>

Forward ==
    \/ forward
    \/ forward_exit
    \/ forward_start
    \/ forward_down
    \/ forward_bottom
    \/ forward_up
    \/ forward_end

Construct ==
    \/ UNetBase_init
    \/ _init_start
    \/ _init_downstream
    \/ _init_bottom
    \/ _init_upstream
    \/ _init_end
    \/ _init_downsample
    \/ _init_upsample

Next == Construct \/ Forward

Spec == Init /\ [][Next]_vars

\* ================================================================ properties
ConstructionPcs ==
    {"new", "failed", "_init_start", "_init_downstream", "_init_bottom",
     "_init_upstream", "_init_end", "_init_downsample", "_init_upsample"}

Constructed == pc \notin ConstructionPcs

InCall == Constructed /\ pc # "idle"

\* the calls of conv blocks among the operators the forward call has invoked
IsConvCall(c) == c.op.kind = "conv"

IsCatCall(c) == c.op.kind = "cat"

ConvCalls == SelectSeq(calls, IsConvCall)

CatCalls == SelectSeq(calls, IsCatCall)

Flagged(key) == \E i \in DOMAIN flags : flags[i] = <<key, TRUE>>

\* the stages before end, in the order forward runs them
InternalStages(depth) ==
    <<<<"start">>>> \o [k \in 1..depth |-> <<"down", k - 1>>]
        \o <<<<"bottom">>>> \o [k \in 1..depth |-> <<"up", depth - k>>]

AnyInternalFlag ==
    \E k \in DOMAIN InternalStages(self.depth) : Flagged(InternalStages(self.depth)[k])

Divisible(shape, first, n) == \A i \in first..Len(shape) : shape[i] % n = 0

\* an input forward is specified to accept
ValidInput ==
    /\ ~input.is_tuple
    /\ Len(input.shape) = self.dim + 2
    /\ input.shape[2] = self.in_channels
    /\ Divisible(input.shape, 3, 2 ^ self.depth)

\* C1: with depth >= 1 and operators that map in_channels to out_channels,
\* every conv block forward invokes (start, down, bottom, up after the
\* concatenation, end) is fed a tensor with exactly the in_channels the block
\* was constructed with, and no channel-count assertion of forward fails.
C1_ChannelFlowConsistent ==
    (Constructed /\ self.depth >= 1) =>
        /\ \A i \in DOMAIN calls :
               IsConvCall(calls[i]) => Size1(calls[i].fed[1]) = calls[i].op.in_channels
        /\ exc.type # "AssertionError"

C1_Witness ==
    /\ pc = "returned"
    /\ self.depth >= 2
    /\ self.gain >= 2
    /\ Len(ConvCalls) = 2 * self.depth + 3

\* C2: constructing with out_channels=None succeeds and sets out_channels to
\* channels('up', 0) = initial_features * gain.
C2_DefaultOutChannels ==
    (pc # "new" /\ DimSupported(args.dim) /\ args.out_channels = None) =>
        /\ pc # "failed"
        /\ (Constructed => self.out_channels = args.initial_features * args.gain)

\* C3: if conv_op_factory flagged at least one stage other than end, forward
\* returns a tuple of the outputs of the flagged stages in the order start,
\* down stages, bottom, up stages as executed, followed by the output of the
\* end block whatever flag was returned for end; its length is the number of
\* flagged stages before end plus one.
C3_SideOutputTuple ==
    (pc = "returned" /\ AnyInternalFlag) =>
        /\ result.is_tuple
        /\ [i \in DOMAIN result.tensors |-> result.tensors[i].src]
               = SelectSeq(InternalStages(self.depth), Flagged) \o <<<<"end">>>>
        /\ Len(result.tensors)
               = Cardinality({k \in DOMAIN InternalStages(self.depth) :
                                 Flagged(InternalStages(self.depth)[k])}) + 1

C3_Witness ==
    /\ pc = "returned"
    /\ self.depth >= 2
    /\ Flagged(<<"down", 1>>)
    /\ Flagged(<<"up", 0>>)
    /\ Flagged(<<"up", 1>>)
    /\ ~Flagged(<<"start">>)
    /\ ~Flagged(<<"end">>)
    /\ Len(result.tensors) >= 4

\* C4: if no stage before end is flagged, forward accepts every valid input
\* [batch, in_channels, *spatial] and returns a single tensor, not a tuple, of
\* shape [batch, out_channels, *spatial].
C4_SingleOutputShape ==
    (InCall /\ ~AnyInternalFlag /\ ValidInput) =>
        /\ exc = NoExc
        /\ pc = "returned" =>
               /\ ~result.is_tuple
               /\ Len(result.tensors) = 1
               /\ result.tensors[1].shape
                      = <<input.shape[1], self.out_channels>> \o SubSeq(input.shape, 3, Len(input.shape))

C4_Witness ==
    /\ pc = "returned"
    /\ ~AnyInternalFlag
    /\ self.depth >= 2
    /\ self.dim = 2
    /\ ~result.is_tuple
    /\ result.tensors[1].shape[3] >= 4

\* C5: for an input of the right rank and channel count, forward raises the
\* scaling error (a RuntimeError) if some spatial extent is not divisible by
\* 2^depth, and raises no scaling error if every spatial extent is.
C5_ScalingCheck ==
    (InCall /\ ~input.is_tuple /\ Len(input.shape) = self.dim + 2
            /\ input.shape[2] = self.in_channels) =>
        IF Divisible(input.shape, 3, 2 ^ self.depth)
        THEN exc.at # "_check_scaling"
        ELSE pc = "raised" /\ exc = Exc("RuntimeError", "_check_scaling")

C5_Witness ==
    /\ pc = "raised"
    /\ exc.at = "_check_scaling"
    /\ self.depth >= 2
    /\ \A i \in 3..Len(input.shape) : input.shape[i] = 2

\* C6: forward fails with the RuntimeError of _forward_sanity_check, and no
\* other exception type, for every malformed input: a tuple, a wrong size of
\* axis 1, any rank other than dim + 2 (ranks 0 and 1 included).
Malformed ==
    \/ input.is_tuple
    \/ Len(input.shape) # self.dim + 2
    \/ input.shape[2] # self.in_channels

C6_MalformedIsShapeError ==
    (InCall /\ Malformed) =>
        pc = "raised" /\ exc = Exc("RuntimeError", "_forward_sanity_check")

\* C7: with dim outside {1, 2, 3} construction fails with a RuntimeError
\* before any conv, downsample or upsample factory is called, so that no
\* operator exists; with dim in {1, 2, 3} this error is never raised.
NoOperatorCreated ==
    /\ flags = << >>
    /\ self._start_block = None
    /\ self._conv_down_ops = None
    /\ self._downsample_ops = None
    /\ self._conv_bottom_op = None
    /\ self._upsample_ops = None
    /\ self._conv_up_ops = None
    /\ self._end_block = None

C7_InvalidDimRejected ==
    /\ (pc # "new" /\ args.dim \notin {1, 2, 3}) =>
           pc = "failed" /\ exc = Exc("RuntimeError", "__init__") /\ NoOperatorCreated
    /\ args.dim \in {1, 2, 3} => exc # Exc("RuntimeError", "__init__")

C7_Witness ==
    /\ pc = "failed"
    /\ args.dim = 4
    /\ exc.type = "RuntimeError"

\* C8 as stated: with depth = 0 the model is start -> end: the conv blocks a
\* forward call runs are the start block and the end block.
C8_StartThenEnd ==
    (pc = "returned" /\ self.depth = 0) =>
        [i \in DOMAIN ConvCalls |-> ConvCalls[i].op.part] = <<"start", "end">>

\* C8 amended: with depth = 0 the model is start -> bottom -> end: the lists
\* of down convs, up convs, downsample and upsample operators are empty,
\* neither construction nor forward raises IndexError or AssertionError, and
\* each executed block is fed the channel count it was constructed with.
DepthZeroCase ==
    pc # "new" /\ args.depth = 0 /\ args.dim \in {1, 2, 3} /\ args.out_channels # None

C8_DepthZero ==
    DepthZeroCase =>
        /\ pc # "failed"
        /\ exc.type # "AssertionError"
        /\ (InCall /\ ValidInput) => exc = NoExc
        /\ \A i \in DOMAIN calls :
               IsConvCall(calls[i]) => Size1(calls[i].fed[1]) = calls[i].op.in_channels
        /\ Constructed =>
               /\ self._conv_down_ops = << >>
               /\ self._conv_up_ops = << >>
               /\ self._downsample_ops = << >>
               /\ self._upsample_ops = << >>
        /\ pc = "returned" =>
               /\ [i \in DOMAIN calls |-> calls[i].op.part] = <<"start", "bottom", "end">>
               /\ Size1(out) = self.out_channels

C8_Witness ==
    /\ pc = "returned"
    /\ args.depth = 0
    /\ self.gain >= 2
    /\ Len(calls) = 3

\* C9: in round i of the upward loop the tensor concatenated with the
\* upsampled tensor is the output of down conv stage depth-1-i, so that the
\* down outputs are used once each in reverse order, and both tensors have
\* the spatial extents of the input divided by 2^(depth-1-i).
C9_SkipLinks ==
    Constructed =>
        /\ \A k \in DOMAIN CatCalls :
               LET a == CatCalls[k].fed[1]
                   b == CatCalls[k].fed[2]
               IN  /\ a.src = <<"down", self.depth - k>>
                   /\ b.src = <<"upsample">>
                   /\ Spatial(a) = Spatial(b)
                   /\ Len(Spatial(a)) = self.dim
                   /\ \A j \in DOMAIN Spatial(a) :
                          Spatial(a)[j] * 2 ^ (self.depth - k) = input.shape[j + 2]
        /\ exc.at # "cat"
        /\ pc \in {"fwd_end", "returned"} => Len(CatCalls) = self.depth

C9_Witness ==
    /\ pc = "returned"
    /\ self.depth >= 2
    /\ Len(CatCalls) = self.depth
    /\ CatCalls[1].fed[1].src = <<"down", self.depth - 1>>
    /\ CatCalls[2].fed[1].shape[3] = 2 * CatCalls[1].fed[1].shape[3]

\* C10: no step of a forward call, succeeding or failing, changes the
\* configuration fields, the side-output bookkeeping or the operator lists of
\* the model, and a call that the input check rejects has invoked no operator.
RejectedByCheck ==
    pc = "raised" /\ exc.at \in {"_forward_sanity_check", "_check_scaling"}

C10_ForwardFrame ==
    /\ [][Constructed => (self' = self /\ flags' = flags /\ args' = args)]_vars
    /\ [](RejectedByCheck => calls = << >>)

C10_Witness ==
    /\ RejectedByCheck
    /\ exc.type = "RuntimeError"
    /\ ~input.is_tuple
    /\ Len(input.shape) = 3
    /\ self.dim = 3
    /\ self.out_channels_side_out # << >>

\* C11: the default UNet builds one convolution for the start block and for
\* down stage 0 and two convolutions in series for every other down and up
\* stage, each followed by a nonlinearity, and builds the end block as one
\* convolution of kernel size 1 to out_channels with no nonlinearity forced
\* on it.
IsUNet == pc = "idle" /\ args.cls = "UNet"

ConvStagesAsClaimed ==
    /\ Len(self._start_block[1].layers) = 1
    /\ \A k \in DOMAIN self._conv_down_ops :
           Len(self._conv_down_ops[k].layers) = IF k = 1 THEN 1 ELSE 2
    /\ \A k \in DOMAIN self._conv_up_ops : Len(self._conv_up_ops[k].layers) = 2
    /\ \A op \in {self._start_block[1]}
                     \cup {self._conv_down_ops[k] : k \in DOMAIN self._conv_down_ops}
                     \cup {self._conv_up_ops[k] : k \in DOMAIN self._conv_up_ops} :
           \A l \in DOMAIN op.layers :
               /\ op.layers[l].activation # None
               /\ op.layers[l].kernel_size = 3

C11_DefaultConvPolicy ==
    IsUNet =>
        /\ ConvStagesAsClaimed
        /\ Len(self._end_block[1].layers) = 1
        /\ self._end_block[1].layers[1].kernel_size = 1
        /\ self._end_block[1].layers[1].out_channels = self.out_channels
        /\ self._end_block[1].layers[1].activation = None

\* C12: out_channels_side_out, computed at construction, is aligned with the
\* outputs forward collects: the two have the same length, and entry k is the
\* channel count of the k-th collected output.
C12_SideOutChannelsAligned ==
    pc = "returned" =>
        /\ Len(self.out_channels_side_out) = Len(side_out)
        /\ result.tensors = side_out
        /\ \A k \in DOMAIN side_out :
               /\ k \in DOMAIN self.out_channels_side_out
               /\ Size1(side_out[k]) = self.out_channels_side_out[k]

C12_Witness ==
    /\ pc = "returned"
    /\ self.depth >= 2
    /\ self.gain >= 2
    /\ Flagged(<<"up", self.depth - 1>>)
    /\ ~Flagged(<<"up", 0>>)
    /\ Flagged(<<"down", 0>>)
    /\ Len(side_out) >= 3
    /\ self.out_channels_side_out[2] # self.out_channels_side_out[1]

====
